---- MODULE Spec2Model ----
(***************************************************************************)
(* Model of grains/abaqus.py: the Material and Geometry editors of Abaqus  *)
(* .inp files.  Text is modelled as sequences of one-character strings, a  *)
(* file as the sequence of its lines (each line carrying its terminator,   *)
(* as Python's file iteration and readlines() deliver them).               *)
(*                                                                         *)
(* Python values without a TLA+ counterpart:                               *)
(*   None (state['begin'], state['end']) and an unassigned integer local   *)
(*     are the integer None == -1;                                         *)
(*   an unassigned string local is Unbound == <<>> (the regex groups the   *)
(*     code binds names from never capture the empty string);              *)
(*   a dict is the sequence of its [key, val] items in insertion order.    *)
(* Output file names are always passed explicitly: the default-name        *)
(* branches of write/remove (abaqus.py 285-287, 292-300, 346-348) only     *)
(* pick the target path.                                                   *)
(*                                                                         *)
(* Spec runs every sequence of at most MaxOps calls on one instance over a *)
(* catalogue of input files; SpecScan runs one call, and a second one      *)
(* after a read, over every file of at most MaxLines lines.                *)
(***************************************************************************)
EXTENDS Integers, Sequences, FiniteSets, TLC

\* ---------------------------------------------------------------- bounds
MaxLines == 3        \* longest enumerated input file, in lines
MaxOps == 4          \* operations performed in one run

None == -1
Unbound == <<>>

\* ------------------------------------------------------------ characters
UC == <<"A","B","C","D","E","F","G","H","I","J","K","L","M",
        "N","O","P","Q","R","S","T","U","V","W","X","Y","Z">>
LC == <<"a","b","c","d","e","f","g","h","i","j","k","l","m",
        "n","o","p","q","r","s","t","u","v","w","x","y","z">>
Digits == <<"0","1","2","3","4","5","6","7","8","9">>

Range(s) == {s[i] : i \in DOMAIN s}

\* re: \s
Spaces == {" ", "\n", "\t", "\r"}
IsSpace(c) == c \in Spaces

\* re: \w
WordChars == Range(UC) \cup Range(LC) \cup Range(Digits) \cup {"_"}
IsWord(c) == c \in WordChars

\* re.IGNORECASE folds both sides to one case
UpperChars == Range(UC)
LowerMap == [c \in UpperChars |-> LC[CHOOSE i \in 1..26 : UC[i] = c]]
Lower(c) == IF c \in UpperChars THEN LowerMap[c] ELSE c

\* pattern.match(line) for a literal pattern under re.IGNORECASE
MatchesCI(line, pat) ==
    /\ Len(line) >= Len(pat)
    /\ \A i \in 1..Len(pat) : Lower(line[i]) = Lower(pat[i])

\* the longest run of [\w-] starting at position i (the greedy group)
RECURSIVE NameRun(_, _)
NameRun(line, i) ==
    IF i <= Len(line) /\ (IsWord(line[i]) \/ line[i] = "-")
    THEN <<line[i]>> \o NameRun(line, i + 1)
    ELSE <<>>

\* --------------------------------------------------------- line classifier
kwMaterial == <<"*","M","a","t","e","r","i","a","l",","," ","n","a","m","e","=">>
kwElastic == <<"E","l","a","s","t","i","c">>
kwPlastic == <<"P","l","a","s","t","i","c">>
kwNODE == <<"*","N","O","D","E">>

\* generalkeyword = re.compile('^\*\s?\w')
generalkeyword(line) ==
    /\ Len(line) >= 2
    /\ line[1] = "*"
    /\ \/ IsWord(line[2])
       \/ Len(line) >= 3 /\ IsSpace(line[2]) /\ IsWord(line[3])

\* comment = re.compile('^[\s]?\*\*')
comment(line) ==
    \/ Len(line) >= 2 /\ line[1] = "*" /\ line[2] = "*"
    \/ Len(line) >= 3 /\ IsSpace(line[1]) /\ line[2] = "*" /\ line[3] = "*"

\* material = re.compile('\*material, name=([\w-]+)', re.IGNORECASE);
\* the value is group(1), or Unbound when match() returns None
material(line) ==
    IF MatchesCI(line, kwMaterial)
    THEN NameRun(line, Len(kwMaterial) + 1)
    ELSE Unbound

\* behavior = re.compile('\*(plastic|elastic)', re.IGNORECASE);
\* the value is group(1) as spelled in the line, or Unbound
behavior(line) ==
    IF MatchesCI(line, <<"*">> \o kwPlastic) \/ MatchesCI(line, <<"*">> \o kwElastic)
    THEN SubSeq(line, 2, 8)
    ELSE Unbound

\* node = re.compile('\*node', re.IGNORECASE)
node(line) == MatchesCI(line, kwNODE)

\* ------------------------------------------------------------ str helpers
\* str.split(',')
RECURSIVE SplitFrom(_, _, _)
SplitFrom(s, i, cur) ==
    IF i > Len(s) THEN <<cur>>
    ELSE IF s[i] = "," THEN <<cur>> \o SplitFrom(s, i + 1, <<>>)
    ELSE SplitFrom(s, i + 1, Append(cur, s[i]))
split(s) == SplitFrom(s, 1, <<>>)

\* ','.join(fields)
RECURSIVE join(_)
join(fields) ==
    IF fields = <<>> THEN <<>>
    ELSE IF Len(fields) = 1 THEN fields[1]
    ELSE fields[1] \o <<",">> \o join(Tail(fields))

\* line[0:-1]
DropLast(line) == SubSeq(line, 1, Len(line) - 1)

\* ''.join(lines): the character stream written to a file
RECURSIVE Concat(_)
Concat(lines) == IF lines = <<>> THEN <<>> ELSE lines[1] \o Concat(Tail(lines))

\* the lines a file with the given content is iterated as (readlines)
RECURSIVE LinesFrom(_, _, _)
LinesFrom(s, i, cur) ==
    IF i > Len(s) THEN (IF cur = <<>> THEN <<>> ELSE <<cur>>)
    ELSE IF s[i] = "\n" THEN <<Append(cur, "\n")>> \o LinesFrom(s, i + 1, <<>>)
    ELSE LinesFrom(s, i + 1, Append(cur, s[i]))
readlines(content) == LinesFrom(content, 1, <<>>)

\* str(n) for a non-negative int
RECURSIVE IntStr(_)
IntStr(n) == IF n < 10 THEN <<Digits[n + 1]>> ELSE IntStr(n \div 10) \o <<Digits[(n % 10) + 1]>>

\* ------------------------------------------------------------------ dicts
DictHas(d, k) == \E i \in DOMAIN d : d[i].key = k
DictIdx(d, k) == CHOOSE i \in DOMAIN d : d[i].key = k
DictGet(d, k) == d[DictIdx(d, k)].val
\* d[k] = v: an existing key keeps its position
DictSet(d, k, v) ==
    IF DictHas(d, k) THEN [d EXCEPT ![DictIdx(d, k)].val = v]
    ELSE Append(d, [key |-> k, val |-> v])

\* ------------------------------------------------------------------ state
VARIABLES
    cls,        \* the class of the instance: "Material" or "Geometry"
    is_greedy,  \* Material.is_greedy (the constructor's from_Abaqus)
    inp_file,   \* self.inp_file
    state,      \* self.state: [begin, end, read]
    materials,  \* Material.materials
    nodes,      \* Geometry.nodes
    fs,         \* the files on disk: name -> [exists, lines]
    last,       \* the last call: [op, args, raised, opened, scanned, held]
    read_lines, \* the lines the successful read iterated over (history)
    nops        \* calls made so far

vars == <<cls, is_greedy, inp_file, state, materials, nodes, fs, last, read_lines, nops>>

FileNames == {"in.inp", "out.inp"}

NoFile == [exists |-> FALSE, lines |-> <<>>]
File(lines) == [exists |-> TRUE, lines |-> lines]

\* ------------------------------------------------------------ input files
NL == <<"\n">>
MatA == kwMaterial \o <<"A">> \o NL
MatB == <<"*","M","A","T","E","R","I","A","L",","," ","N","A","M","E","=","B">> \o NL
ElasticLine == <<"*">> \o kwElastic \o NL
DataLine == <<"1",","," ","2">> \o NL
StepLine == <<"*","S","t","e","p">> \o NL
CommentLine == <<"*","*"," ","c">> \o NL
NodeLine == <<"*","N","o","d","e">> \o NL
RowLine == <<"7",",","2",",","0",".","5">> \o NL
\* a node row whose last field is not a number
TextRowLine == <<"8",",","1",",","x">> \o NL

MaterialPool == {MatA, MatB, ElasticLine, DataLine, StepLine, CommentLine}
GeometryPool == {NodeLine, RowLine, StepLine, CommentLine}

\* the example of the block-range property: a material, a behavior, a row,
\* an unrelated keyword and its data line
Example == <<MatA, ElasticLine, <<"1",",","0",".","3">> \o NL, StepLine,
             <<".",".",".">> \o NL>>

SeqsUpTo(S, n) == UNION {[1..k -> S] : k \in 0..n}

\* the same file without the terminator of its last line
NoEOL(lines) ==
    IF lines = <<>> THEN lines
    ELSE [lines EXCEPT ![Len(lines)] = DropLast(@)]

FilesOver(pool) ==
    LET full == SeqsUpTo(pool, MaxLines)
    IN full \cup {NoEOL(f) : f \in full}

\* every file of at most MaxLines lines over the pool of the class
Enumerated == [c \in {"Material", "Geometry"} |->
                 FilesOver(IF c = "Material" THEN MaterialPool ELSE GeometryPool)
                 \cup {Example}]

\* the files the operation sequences are run on
Catalogue == [c \in {"Material", "Geometry"} |->
    IF c = "Material" THEN
        { Example,
          <<CommentLine, MatA, ElasticLine, DataLine, MatB, ElasticLine, DataLine,
            StepLine, DataLine>>,
          <<MatA, ElasticLine, DataLine, MatA, StepLine>>,
          <<MatA, ElasticLine, NoEOL(<<DataLine>>)[1]>>,
          <<StepLine, DataLine>>,
          <<MatA, DataLine>>,
          <<ElasticLine, MatA>>,
          <<>> }
    ELSE
        { <<StepLine, NodeLine, RowLine, RowLine, StepLine, DataLine>>,
          <<NodeLine, RowLine, NodeLine, RowLine, CommentLine>>,
          <<NodeLine, NoEOL(<<RowLine>>)[1]>>,
          <<NodeLine, RowLine, TextRowLine>>,
          <<NodeLine, StepLine>>,
          <<StepLine, DataLine>>,
          <<>> }]

\* ----------------------------------------------------------- validate_file
\* TRUE when validate_file(file, caller) raises
validate_file(disk, file, caller) ==
    IF caller = "read"
    THEN ~disk[file].exists \/ Len(Concat(disk[file].lines)) = 0
    ELSE caller \notin {"write", "create"}

\* ------------------------------------------------------------ Material.read
\* faulty variant of MaterialReadGuard: the guard left out
NoReadGuard(self) == FALSE

\* faulty variant of MaterialReadGuard: a hierarchy that holds materials is
\* taken for one that was read
PopulatedGuard(self) == self.state.read \/ self.materials # <<>>

\* if self.state['read']: raise
MaterialReadGuard(self) == self.state.read

\* faulty variant of BlockEnd: the closing line itself taken for the end
BlockEndAtTerminator(line_number) == line_number

\* end = line_number-1 at the line that closes the block
BlockEnd(line_number) == line_number - 1

\* the block is closed by a keyword or comment line, in greedy mode only
ClosesBlock(is_generalkeyword, is_comment, in_material, greedy) ==
    (is_generalkeyword \/ is_comment) /\ in_material /\ greedy

\* faulty variant of EndOfFile: the number of lines for the last index
EndOfFileCount(line_number) == line_number + 1

\* if 'end' not in locals(): end = line_number
EndOfFile(line_number) == line_number

\* the locals of read before the loop
ReadLocals ==
    [in_material |-> FALSE, materials |-> <<>>, begin |-> None, end |-> None,
     material_name |-> Unbound, behavior_name |-> Unbound,
     line_number |-> None, exc |-> FALSE, brk |-> FALSE]

\* one pass of the loop body on `line`, the line_number-th line
MaterialReadLine(L, line, line_number, greedy) ==
    LET is_generalkeyword == generalkeyword(line)
        group_m == material(line)
        is_material == group_m # Unbound
        group_b == behavior(line)
        is_behavior == group_b # Unbound
        is_comment == comment(line)
        is_parameter == ~is_generalkeyword /\ ~is_comment
        is_material_param == is_parameter /\ L.in_material
        L1 == [L EXCEPT !.line_number = line_number]
    IN  IF is_material THEN
            [L1 EXCEPT !.in_material = TRUE,
                       !.begin = IF L.in_material THEN @ ELSE line_number,
                       !.material_name = group_m,
                       !.materials = DictSet(@, group_m, <<>>)]
        ELSE IF is_behavior THEN
            IF L.material_name = Unbound
            THEN [L1 EXCEPT !.exc = TRUE]       \* UnboundLocalError
            ELSE [L1 EXCEPT !.behavior_name = group_b,
                            !.materials = DictSet(@, L.material_name,
                                DictSet(DictGet(@, L.material_name), group_b, <<>>))]
        ELSE IF is_material_param THEN
            IF \/ L.behavior_name = Unbound     \* UnboundLocalError
               \/ ~DictHas(DictGet(L.materials, L.material_name), L.behavior_name)
                                                \* KeyError
            THEN [L1 EXCEPT !.exc = TRUE]
            ELSE [L1 EXCEPT !.materials = DictSet(@, L.material_name,
                    DictSet(DictGet(@, L.material_name), L.behavior_name,
                        Append(DictGet(DictGet(@, L.material_name), L.behavior_name),
                               split(DropLast(line)))))]
        ELSE IF ClosesBlock(is_generalkeyword, is_comment, L.in_material, greedy) THEN
            [L1 EXCEPT !.end = BlockEnd(line_number), !.brk = TRUE]
        ELSE L1

\* the for loop over the file's lines, from the i-th line on
RECURSIVE MaterialReadLoop(_, _, _, _)
MaterialReadLoop(lines, i, L, greedy) ==
    IF i > Len(lines) \/ L.exc \/ L.brk THEN L
    ELSE MaterialReadLoop(lines, i + 1,
                          MaterialReadLine(L, lines[i], i - 1, greedy), greedy)

\* read(inp_file) on an instance self = [inp_file, state, materials, is_greedy]:
\* the instance after the call, with what the call did
Material_read(self, disk, file) ==
    LET L == MaterialReadLoop(disk[file].lines, 1, ReadLocals, self.is_greedy)
        end == IF L.end = None THEN EndOfFile(L.line_number) ELSE L.end
        scanned == L.line_number + 1
    IN  IF MaterialReadGuard(self) THEN
            [self |-> self, raised |-> TRUE, opened |-> <<>>, scanned |-> 0]
        ELSE IF validate_file(disk, file, "read") THEN
            [self |-> self, raised |-> TRUE, opened |-> <<>>, scanned |-> 0]
        ELSE IF L.exc THEN
            [self |-> self, raised |-> TRUE, opened |-> <<<<file, "r">>>>,
             scanned |-> scanned]
        ELSE IF L.begin = None THEN             \* UnboundLocalError at line 243
            [self |-> [self EXCEPT !.inp_file = file, !.materials = L.materials],
             raised |-> TRUE, opened |-> <<<<file, "r">>>>, scanned |-> scanned]
        ELSE
            [self |-> [self EXCEPT !.inp_file = file, !.materials = L.materials,
                                   !.state = [begin |-> L.begin, end |-> end,
                                              read |-> TRUE]],
             raised |-> FALSE, opened |-> <<<<file, "r">>>>, scanned |-> scanned]

\* ------------------------------------------------------- Material add-entry
\* str(E), ' ' + str(nu): the one row an added behavior holds
ParamRow(a, b) == <<IntStr(a), <<" ">> \o IntStr(b)>>

\* faulty variant of add_material: the existence test left out, an existing
\* material is reset
add_material_overwrite(mats, name) == DictSet(mats, name, <<>>)

add_material(mats, name) ==
    IF DictHas(mats, name) THEN mats
    ELSE DictSet(mats, name, <<>>)

\* add_linearelastic / add_plastic with key = 'Elastic' / 'Plastic'
add_behavior(mats, name, key, a, b) ==
    IF DictHas(mats, name) THEN
        IF DictHas(DictGet(mats, name), key) THEN mats
        ELSE DictSet(mats, name, DictSet(DictGet(mats, name), key, <<ParamRow(a, b)>>))
    ELSE mats

add_linearelastic(mats, name, E, nu) == add_behavior(mats, name, kwElastic, E, nu)

add_plastic(mats, name, sigma_y, epsilon_p) ==
    add_behavior(mats, name, kwPlastic, sigma_y, epsilon_p)

\* ---------------------------------------------------------- Material.__format
RECURSIVE FormatRows(_)
FormatRows(rows) ==
    IF rows = <<>> THEN <<>>
    ELSE <<join(rows[1]) \o NL>> \o FormatRows(Tail(rows))

RECURSIVE FormatBehaviors(_)
FormatBehaviors(behaviors) ==
    IF behaviors = <<>> THEN <<>>
    ELSE <<<<"*">> \o behaviors[1].key \o NL>> \o FormatRows(behaviors[1].val)
         \o FormatBehaviors(Tail(behaviors))

RECURSIVE Material_format(_)
Material_format(mats) ==
    IF mats = <<>> THEN <<>>
    ELSE <<kwMaterial \o mats[1].key \o NL>> \o FormatBehaviors(mats[1].val)
         \o Material_format(Tail(mats))

\* ---------------------------------------------------------- Geometry.__format
Geometry_format(rows) == <<kwNODE \o NL>> \o FormatRows(rows)

\* ------------------------------------------------------------------ splice
Min(a, b) == IF a < b THEN a ELSE b

\* s[lo:hi] for 0 <= lo, 0 <= hi: a slice clips to the list
Slice(s, lo, hi) ==
    IF Min(lo, Len(s)) >= Min(hi, Len(s)) THEN <<>>
    ELSE SubSeq(s, Min(lo, Len(s)) + 1, Min(hi, Len(s)))

\* faulty variant of Splice: old[end:] for old[end+1:]
SpliceKeepsLast(old, begin, end, block) ==
    Slice(old, 0, begin) \o block \o Slice(old, end, Len(old))

\* old[0:begin] + block + old[end+1:]
Splice(old, begin, end, block) ==
    Slice(old, 0, begin) \o block \o Slice(old, end + 1, Len(old))

\* target.write(''.join(new)): the file `file` holds afterwards
WriteFile(disk, file, new) ==
    [disk EXCEPT ![file] = File(readlines(Concat(new)))]

\* ------------------------------------------------------------ Material.write
\* faulty variant of EmptyDatabase: the guard left out
NeverEmpty(mats) == FALSE

\* if not self.materials: raise
EmptyDatabase(mats) == mats = <<>>

\* write(output_file) on self: the disk after the call, with what it did
Material_write(self, disk, output_file) ==
    IF EmptyDatabase(self.materials) THEN
        [disk |-> disk, raised |-> TRUE, opened |-> <<>>]
    ELSE IF self.state.read THEN
        [disk |-> WriteFile(disk, output_file,
                    Splice(disk[self.inp_file].lines, self.state.begin,
                           self.state.end, Material_format(self.materials))),
         raised |-> FALSE,
         opened |-> <<<<self.inp_file, "r">>, <<output_file, "w">>>>]
    ELSE
        [disk |-> WriteFile(disk, output_file, Material_format(self.materials)),
         raised |-> FALSE, opened |-> <<<<output_file, "w">>>>]

\* ----------------------------------------------------------- Material.remove
\* Material(): the instance the constructor returns
NewMaterial(from_Abaqus) ==
    [inp_file |-> "", state |-> [begin |-> None, end |-> None, read |-> FALSE],
     materials |-> <<>>, is_greedy |-> from_Abaqus]

\* remove(inp_file, output_file): a = Material() uses the default from_Abaqus=False
Material_remove(disk, file, output_file) ==
    LET r == Material_read(NewMaterial(FALSE), disk, file)
        a == r.self
    IN  IF ~disk[file].exists THEN          \* open(inp_file, 'r') fails
            [disk |-> disk, raised |-> TRUE, opened |-> <<>>]
        ELSE IF r.raised THEN
            [disk |-> disk, raised |-> TRUE,
             opened |-> <<<<file, "r">>>> \o r.opened]
        ELSE
            [disk |-> WriteFile(disk, output_file,
                        Splice(disk[file].lines, a.state.begin, a.state.end, <<>>)),
             raised |-> FALSE,
             opened |-> <<<<file, "r">>>> \o r.opened \o <<<<output_file, "w">>>>]

\* ------------------------------------------------------------ Geometry.read
\* if self.state['read']: raise
GeometryReadGuard(self) == self.state.read

NodeLocals ==
    [in_node |-> FALSE, nodes |-> <<>>, begin |-> None, end |-> None,
     line_number |-> None, exc |-> FALSE, brk |-> FALSE]

GeometryReadLine(L, line, line_number) ==
    LET is_generalkeyword == generalkeyword(line)
        is_node == node(line)
        is_comment == comment(line)
        is_parameter == ~is_generalkeyword /\ ~is_comment
        is_node_param == is_parameter /\ L.in_node
        L1 == [L EXCEPT !.line_number = line_number]
    IN  IF is_node THEN
            [L1 EXCEPT !.in_node = TRUE, !.begin = line_number]
        ELSE IF is_node_param THEN
            [L1 EXCEPT !.nodes = Append(@, split(DropLast(line)))]
        ELSE IF (is_generalkeyword \/ is_comment) /\ L.in_node THEN
            [L1 EXCEPT !.end = line_number - 1, !.brk = TRUE]
        ELSE L1

RECURSIVE GeometryReadLoop(_, _, _)
GeometryReadLoop(lines, i, L) ==
    IF i > Len(lines) \/ L.exc \/ L.brk THEN L
    ELSE GeometryReadLoop(lines, i + 1, GeometryReadLine(L, lines[i], i - 1))

\* read(inp_file) on self = [inp_file, state, nodes]
Geometry_read(self, disk, file) ==
    LET L == GeometryReadLoop(disk[file].lines, 1, NodeLocals)
        end == IF L.end = None THEN EndOfFile(L.line_number) ELSE L.end
        scanned == L.line_number + 1
    IN  IF GeometryReadGuard(self) THEN
            [self |-> self, raised |-> TRUE, opened |-> <<>>, scanned |-> 0]
        ELSE IF validate_file(disk, file, "read") THEN
            [self |-> self, raised |-> TRUE, opened |-> <<>>, scanned |-> 0]
        ELSE IF L.begin = None THEN             \* UnboundLocalError at line 527
            [self |-> [self EXCEPT !.inp_file = file, !.nodes = L.nodes],
             raised |-> TRUE, opened |-> <<<<file, "r">>>>, scanned |-> scanned]
        ELSE
            [self |-> [self EXCEPT !.inp_file = file, !.nodes = L.nodes,
                                   !.state = [begin |-> L.begin, end |-> end,
                                              read |-> TRUE]],
             raised |-> FALSE, opened |-> <<<<file, "r">>>>, scanned |-> scanned]

\* ----------------------------------------------------------- Geometry.scale
\* Coordinates are counted in halves: the texts the model meets are decimal
\* numerals whose fraction is empty, zero or .5, which float() and str()
\* convert exactly.
Strip(s) ==
    LET keep == {i \in DOMAIN s : ~IsSpace(s[i])}
    IN  IF keep = {} THEN <<>>
        ELSE SubSeq(s, CHOOSE i \in keep : \A j \in keep : i <= j,
                       CHOOSE i \in keep : \A j \in keep : j <= i)

RECURSIVE DigitsValue(_)
DigitsValue(ds) ==
    IF ds = <<>> THEN 0
    ELSE 10 * DigitsValue(SubSeq(ds, 1, Len(ds) - 1))
         + (CHOOSE d \in 0..9 : Digits[d + 1] = ds[Len(ds)])

DigitChars == Range(Digits)
AllDigits(ds) == \A i \in DOMAIN ds : ds[i] \in DigitChars

\* float(text) in halves, or None where float() raises ValueError
ParseFloat(text) ==
    LET t == Strip(text)
        dots == {i \in DOMAIN t : t[i] = "."}
        dot == IF dots = {} THEN Len(t) + 1 ELSE CHOOSE i \in dots : TRUE
        whole == SubSeq(t, 1, dot - 1)
        frac == SubSeq(t, dot + 1, Len(t))
    IN  IF \/ Cardinality(dots) > 1
           \/ ~AllDigits(whole) \/ ~AllDigits(frac)
           \/ (whole = <<>> /\ frac = <<>>)
           \/ (frac # <<>> /\ frac[1] \notin {"0", "5"})
           \/ \E i \in DOMAIN frac : i > 1 /\ frac[i] # "0"
        THEN None
        ELSE 2 * DigitsValue(whole) + (IF frac # <<>> /\ frac[1] = "5" THEN 1 ELSE 0)

\* str(x) of the float x = h/2
FloatStr(h) == IntStr(h \div 2) \o <<".">> \o (IF h % 2 = 0 THEN <<"0">> ELSE <<"5">>)

\* faulty variant of ScaledField: the factor left out
UnscaledField(coordinate, factor) == <<" ">> \o FloatStr(ParseFloat(coordinate))

\* ' ' + str(float(coordinate)*factor)
ScaledField(coordinate, factor) ==
    <<" ">> \o FloatStr(ParseFloat(coordinate) * factor)

\* positions (row, field) in the order the loops visit them
Before(p, q) == p[1] < q[1] \/ (p[1] = q[1] /\ p[2] < q[2])

\* the loops of scale over the node rows: the rows afterwards and whether
\* float() raised on the way
ScaleRows(rows, factor) ==
    LET fields == UNION {{<<i, j>> : j \in DOMAIN rows[i]} : i \in DOMAIN rows}
        bad == {p \in fields : p[2] >= 2 /\ ParseFloat(rows[p[1]][p[2]]) = None}
        stop == IF bad = {} THEN <<Len(rows) + 1, 1>>
                ELSE CHOOSE p \in bad : \A q \in bad : p = q \/ Before(p, q)
    IN  [nodes |-> [i \in DOMAIN rows |->
                      [j \in DOMAIN rows[i] |->
                         IF j >= 2 /\ Before(<<i, j>>, stop)
                         THEN ScaledField(rows[i][j], factor)
                         ELSE rows[i][j]]],
         raised |-> bad # {}]

\* scale(factor) on self.nodes
Geometry_scale(rows, factor) ==
    IF rows = <<>> THEN [nodes |-> rows, raised |-> TRUE]
    ELSE ScaleRows(rows, factor)

\* ----------------------------------------------------------- Geometry.write
Geometry_write(self, disk, output_file) ==
    IF self.nodes = <<>> THEN
        [disk |-> disk, raised |-> TRUE, opened |-> <<>>]
    ELSE
        [disk |-> WriteFile(disk, output_file,
                    Splice(disk[self.inp_file].lines, self.state.begin,
                           self.state.end, Geometry_format(self.nodes))),
         raised |-> FALSE,
         opened |-> <<<<self.inp_file, "r">>, <<output_file, "w">>>>]

\* ---------------------------------------------------------------- actions
MaterialSelf ==
    [inp_file |-> inp_file, state |-> state, materials |-> materials,
     is_greedy |-> is_greedy]

GeometrySelf == [inp_file |-> inp_file, state |-> state, nodes |-> nodes]

\* the record of a call; held is the number of materials the hierarchy held
\* when the call was made
Did(op, args, raised, opened, scanned) ==
    [op |-> op, args |-> args, raised |-> raised, opened |-> opened,
     scanned |-> scanned, held |-> Len(materials)]

\* the arguments the calls are made with
AddNames == {<<"A">>, <<"B">>, <<"A", ".", "1">>}
Params == {<<210, 3>>}
Factors == {2, 3}

Step == nops < MaxOps /\ nops' = nops + 1

\* the state after construction, with `files` the candidate input files
Start(files) ==
    /\ cls \in {"Material", "Geometry"}
    /\ is_greedy \in (IF cls = "Material" THEN BOOLEAN ELSE {FALSE})
    /\ inp_file = ""
    /\ state = [begin |-> None, end |-> None, read |-> FALSE]
    /\ materials = <<>>
    /\ nodes = <<>>
    /\ \E f \in files[cls] :
           fs = [n \in FileNames |-> IF n = "in.inp" THEN File(f) ELSE NoFile]
    /\ last = Did("init", <<>>, FALSE, <<>>, 0)
    /\ read_lines = <<>>
    /\ nops = 0

Init == Start(Catalogue)

AddMaterial(name) ==
    /\ cls = "Material" /\ Step
    /\ materials' = add_material(materials, name)
    /\ last' = Did("add_material", <<name>>, FALSE, <<>>, 0)
    /\ UNCHANGED <<cls, is_greedy, inp_file, state, nodes, fs, read_lines>>

AddLinearElastic(name, E, nu) ==
    /\ cls = "Material" /\ Step
    /\ materials' = add_linearelastic(materials, name, E, nu)
    /\ last' = Did("add_linearelastic", <<name, E, nu>>, FALSE, <<>>, 0)
    /\ UNCHANGED <<cls, is_greedy, inp_file, state, nodes, fs, read_lines>>

AddPlastic(name, sigma_y, epsilon_p) ==
    /\ cls = "Material" /\ Step
    /\ materials' = add_plastic(materials, name, sigma_y, epsilon_p)
    /\ last' = Did("add_plastic", <<name, sigma_y, epsilon_p>>, FALSE, <<>>, 0)
    /\ UNCHANGED <<cls, is_greedy, inp_file, state, nodes, fs, read_lines>>

MaterialRead(file) ==
    /\ cls = "Material" /\ Step
    /\ LET r == Material_read(MaterialSelf, fs, file)
       IN  /\ inp_file' = r.self.inp_file
           /\ state' = r.self.state
           /\ materials' = r.self.materials
           /\ last' = Did("read", <<file>>, r.raised, r.opened, r.scanned)
           /\ read_lines' = IF r.self.state.read /\ ~state.read
                            THEN fs[file].lines ELSE read_lines
    /\ UNCHANGED <<cls, is_greedy, nodes, fs>>

MaterialWrite(output_file) ==
    /\ cls = "Material" /\ Step
    /\ LET r == Material_write(MaterialSelf, fs, output_file)
       IN  /\ fs' = r.disk
           /\ last' = Did("write", <<output_file>>, r.raised, r.opened, 0)
    /\ UNCHANGED <<cls, is_greedy, inp_file, state, materials, nodes, read_lines>>

MaterialRemove(file, output_file) ==
    /\ cls = "Material" /\ Step
    /\ LET r == Material_remove(fs, file, output_file)
       IN  /\ fs' = r.disk
           /\ last' = Did("remove", <<file, output_file>>, r.raised, r.opened, 0)
    /\ UNCHANGED <<cls, is_greedy, inp_file, state, materials, nodes, read_lines>>

GeometryRead(file) ==
    /\ cls = "Geometry" /\ Step
    /\ LET r == Geometry_read(GeometrySelf, fs, file)
       IN  /\ inp_file' = r.self.inp_file
           /\ state' = r.self.state
           /\ nodes' = r.self.nodes
           /\ last' = Did("read", <<file>>, r.raised, r.opened, r.scanned)
           /\ read_lines' = IF r.self.state.read /\ ~state.read
                            THEN fs[file].lines ELSE read_lines
    /\ UNCHANGED <<cls, is_greedy, materials, fs>>

GeometryScale(factor) ==
    /\ cls = "Geometry" /\ Step
    /\ LET r == Geometry_scale(nodes, factor)
       IN  /\ nodes' = r.nodes
           /\ last' = Did("scale", <<factor>>, r.raised, <<>>, 0)
    /\ UNCHANGED <<cls, is_greedy, inp_file, state, materials, fs, read_lines>>

GeometryWrite(output_file) ==
    /\ cls = "Geometry" /\ Step
    /\ LET r == Geometry_write(GeometrySelf, fs, output_file)
       IN  /\ fs' = r.disk
           /\ last' = Did("write", <<output_file>>, r.raised, r.opened, 0)
    /\ UNCHANGED <<cls, is_greedy, inp_file, state, materials, nodes, read_lines>>

Next ==
    \/ \E name \in AddNames : AddMaterial(name)
    \/ \E name \in AddNames, p \in Params : AddLinearElastic(name, p[1], p[2])
    \/ \E name \in AddNames, p \in Params : AddPlastic(name, p[1], p[2])
    \/ \E file \in FileNames : MaterialRead(file)
    \/ \E output_file \in FileNames : MaterialWrite(output_file)
    \/ \E file \in FileNames, output_file \in FileNames : MaterialRemove(file, output_file)
    \/ \E file \in FileNames : GeometryRead(file)
    \/ \E factor \in Factors : GeometryScale(factor)
    \/ \E output_file \in FileNames : GeometryWrite(output_file)

Spec == Init /\ [][Next]_vars

\* Every enumerated file, put through one call, and through a second call
\* when the first was a read.
InitScan == Start(Enumerated)

NextScan ==
    /\ Next
    /\ \/ last.op = "init"
       \/ last.op = "read" /\ last'.op \in {"read", "write"}

SpecScan == InitScan /\ [][NextScan]_vars

\* ======================================================================
\* Properties
\* ======================================================================
\* Line indices of the code are zero-based, those of a sequence one-based.

IsMaterialStart(line) == material(line) # Unbound
IsBehaviorStart(line) == behavior(line) # Unbound
IsDataLine(line) == ~generalkeyword(line) /\ ~comment(line)
\* a comment line, or a keyword line other than material-start/behavior-start
IsTerminator(line) ==
    (comment(line) \/ generalkeyword(line))
    /\ ~IsMaterialStart(line) /\ ~IsBehaviorStart(line)

MinOf(S) == CHOOSE i \in S : \A j \in S : i <= j

MaterialStarts(lines) == {i \in DOMAIN lines : IsMaterialStart(lines[i])}
FirstStart(lines) == MinOf(MaterialStarts(lines))
Terminators(lines) ==
    {i \in DOMAIN lines : i > FirstStart(lines) /\ IsTerminator(lines[i])}
\* the last line of the materials block that opens at the first material-start
BlockLast(lines) ==
    IF Terminators(lines) = {} THEN Len(lines) ELSE MinOf(Terminators(lines)) - 1

\* the hierarchy a block of lines spells out
Extract(block) == MaterialReadLoop(block, 1, ReadLocals, TRUE).materials

\* every line is terminated; in the materials block every data line follows a
\* behavior of its material, material names are distinct and so are the
\* behaviors of one material
WellFormed(lines) ==
    /\ MaterialStarts(lines) # {}
    /\ \A i \in DOMAIN lines : lines[i][Len(lines[i])] = "\n"
    /\ LET b == FirstStart(lines)
           e == BlockLast(lines)
       IN  /\ \A i \in b..e : IsDataLine(lines[i]) =>
                  \E j \in b..(i - 1) :
                      /\ IsBehaviorStart(lines[j])
                      /\ \A k \in (j + 1)..(i - 1) : ~IsMaterialStart(lines[k])
           /\ \A i, j \in b..e :
                  (i < j /\ IsMaterialStart(lines[i]) /\ IsMaterialStart(lines[j]))
                  => material(lines[i]) # material(lines[j])
           /\ \A i, j \in b..e :
                  (i < j /\ IsBehaviorStart(lines[i]) /\ IsBehaviorStart(lines[j])
                         /\ behavior(lines[i]) = behavior(lines[j]))
                  => \E k \in (i + 1)..(j - 1) : IsMaterialStart(lines[k])

InstanceUnchanged ==
    /\ materials' = materials
    /\ nodes' = nodes
    /\ inp_file' = inp_file
    /\ state' = state

\* C1: a write that directly follows a successful Material.read of a
\* well-formed file, in either mode, keeps every line before the first
\* material-start line and every line after the last line of the materials
\* block, unchanged and in order, and its block spells out the same materials,
\* behaviors and rows.
RoundTripIdentity ==
    [][ ( /\ cls = "Material"
          /\ last.op = "read" /\ ~last.raised
          /\ last'.op = "write" /\ ~last'.raised
          /\ WellFormed(read_lines) )
        => LET orig == read_lines
               out == fs'[last'.args[1]].lines
               b == FirstStart(orig)
               e == BlockLast(orig)
               tail == Len(orig) - e
           IN  /\ Len(out) >= (b - 1) + tail
               /\ SubSeq(out, 1, b - 1) = SubSeq(orig, 1, b - 1)
               /\ SubSeq(out, Len(out) - tail + 1, Len(out))
                    = SubSeq(orig, e + 1, Len(orig))
               /\ Extract(SubSeq(out, b, Len(out) - tail))
                    = Extract(SubSeq(orig, b, e)) ]_vars

\* C2: a read that raises leaves the hierarchy, inp_file and the state record
\* as they were before the call.
FailedReadCommitsNothing ==
    [][ (last'.op = "read" /\ last'.raised) => InstanceUnchanged ]_vars

\* C3: right after a successful read, line `begin` is a start line of the
\* family and no line of begin..end is a comment line or a keyword line of
\* another family.
RangeIsBlock ==
    (last.op = "read" /\ ~last.raised) =>
        LET lines == read_lines
            family(l) == IF cls = "Material"
                         THEN IsMaterialStart(l) \/ IsBehaviorStart(l)
                         ELSE node(l)
        IN  /\ IF cls = "Material" THEN IsMaterialStart(lines[state.begin + 1])
                                   ELSE node(lines[state.begin + 1])
            /\ \A i \in (state.begin + 1)..(state.end + 1) :
                   /\ ~comment(lines[i])
                   /\ generalkeyword(lines[i]) => family(lines[i])

\* where the strict read is to put begin and end, and how many lines it is to
\* consume, on the lines given
Located(lines, st, scanned) ==
    /\ st.begin = FirstStart(lines) - 1
    /\ st.end = BlockLast(lines) - 1
    /\ scanned = IF Terminators(lines) = {} THEN Len(lines)
                 ELSE MinOf(Terminators(lines))

\* C4 as stated: in strict mode a first read of ANY existing file that holds
\* a material-start line sets begin to the first material-start line and end
\* to the line before the first later terminator (or the last line), and reads
\* no line after the terminator.
StrictLocateAnyInput ==
    [][ ( /\ cls = "Material" /\ is_greedy /\ ~state.read
          /\ last'.op = "read"
          /\ fs[last'.args[1]].exists
          /\ MaterialStarts(fs[last'.args[1]].lines) # {} )
        => Located(fs[last'.args[1]].lines, state', last'.scanned) ]_vars

\* C4 (amended): in strict mode, whenever the read succeeds, begin is the
\* first material-start line, end is the line before the first later
\* terminator (or the last line of the file), and no line after the terminator
\* is read.
StrictLocate ==
    (cls = "Material" /\ is_greedy /\ last.op = "read" /\ ~last.raised)
        => Located(read_lines, state, last.scanned)

\* the strict read of the example file gave begin = 0, end = 2, reading four
\* of its five lines
StrictLocateWitness ==
    /\ cls = "Material" /\ is_greedy
    /\ last.op = "read" /\ ~last.raised
    /\ read_lines = Example
    /\ state.begin = 0 /\ state.end = 2
    /\ last.scanned = 4

\* C5: remove writes the lines of the file with only the materials block
\* deleted: the lines before the first material-start line followed by the
\* lines after the last line of the block.
RemoveDeletesOnlyBlock ==
    [][ (last'.op = "remove" /\ ~last'.raised) =>
          LET orig == fs[last'.args[1]].lines
              b == FirstStart(orig)
              e == BlockLast(orig)
          IN  MaterialStarts(orig) \subseteq b..e =>
                  Concat(fs'[last'.args[2]].lines)
                    = Concat(SubSeq(orig, 1, b - 1) \o SubSeq(orig, e + 1, Len(orig)))
      ]_vars

\* C6: once a read has succeeded, every later read raises and leaves the
\* hierarchy, inp_file and the state record unchanged.
RereadGuard ==
    [][ (state.read /\ last'.op = "read") =>
            (last'.raised /\ InstanceUnchanged) ]_vars

\* a read was rejected on an instance an earlier read had populated
RereadWitness ==
    /\ state.read
    /\ last.op = "read" /\ last.raised
    /\ (materials # <<>> \/ nodes # <<>>)

\* C7: a hierarchy built by add-entry calls alone serializes to lines that,
\* read back into a fresh instance (of either mode) and serialized again,
\* give the same lines.
IdempotentReserialization ==
    (cls = "Material" /\ ~state.read /\ inp_file = "" /\ materials # <<>>) =>
        \A mode \in BOOLEAN :
            LET ser == Material_format(materials)
                r == Material_read(NewMaterial(mode),
                                   WriteFile(fs, "out.inp", ser), "out.inp")
            IN  ~r.raised /\ Material_format(r.self.materials) = ser

\* s[0:n] and s[n:]
Take(s, n) == SubSeq(s, 1, IF n < Len(s) THEN n ELSE Len(s))
Drop(s, n) == SubSeq(s, (IF n < Len(s) THEN n ELSE Len(s)) + 1, Len(s))

Serialized ==
    IF cls = "Material" THEN Material_format(materials) ELSE Geometry_format(nodes)

SpliceInto(old) ==
    Take(old, state.begin) \o Serialized \o Drop(old, state.end + 1)

\* C8 as stated: a successful write of a read instance leaves in the target
\* file (lines that were read)[0:begin] + serialize(hierarchy) + (lines that
\* were read)[end+1:]; that of a Material never read, serialize(hierarchy).
SpliceOnWriteOfReadLines ==
    [][ (last'.op = "write" /\ ~last'.raised) =>
            Concat(fs'[last'.args[1]].lines)
              = Concat(IF state.read THEN SpliceInto(read_lines) ELSE Serialized)
      ]_vars

\* C8 (amended): the lines spliced into are those inp_file holds when write is
\* called.
SpliceOnWrite ==
    [][ (last'.op = "write" /\ ~last'.raised) =>
            Concat(fs'[last'.args[1]].lines)
              = Concat(IF state.read THEN SpliceInto(fs[inp_file].lines)
                       ELSE Serialized)
      ]_vars

\* a material was added to a read hierarchy, and the write put the block
\* between the line before it and the lines after it
SpliceWitness ==
    /\ cls = "Material" /\ state.read
    /\ last.op = "write" /\ ~last.raised /\ last.args = <<"out.inp">>
    /\ state.begin = 1 /\ state.end = 6
    /\ Len(materials) = 3
    /\ Len(fs["out.inp"].lines) = 10

\* C9: write on an empty hierarchy and scale on no nodes raise, open no file,
\* and leave the disk, the hierarchy, inp_file and the state record unchanged.
EmptyGuards ==
    [][ ( \/ last'.op = "write" /\ cls = "Material" /\ materials = <<>>
          \/ last'.op = "write" /\ cls = "Geometry" /\ nodes = <<>>
          \/ last'.op = "scale" /\ nodes = <<>> )
        => ( /\ last'.raised
             /\ last'.opened = <<>>
             /\ fs' = fs
             /\ InstanceUnchanged ) ]_vars

\* a freshly constructed Material refused to write
EmptyGuardsWitness ==
    /\ cls = "Material" /\ materials = <<>> /\ inp_file = ""
    /\ last.op = "write" /\ last.raised
    /\ nops = 1

\* C10: add_material of an existing name, and add_linearelastic / add_plastic
\* on a missing material or on one that has the behavior, change nothing of
\* the hierarchy and do not raise.
RejectedAddsAreNoOps ==
    [][ ( \/ /\ last'.op = "add_material"
             /\ DictHas(materials, last'.args[1])
          \/ /\ last'.op \in {"add_linearelastic", "add_plastic"}
             /\ \/ ~DictHas(materials, last'.args[1])
                \/ DictHas(DictGet(materials, last'.args[1]),
                           IF last'.op = "add_plastic" THEN kwPlastic ELSE kwElastic) )
        => (materials' = materials /\ ~last'.raised) ]_vars

\* add_material was called with the name of a material that has a behavior
RejectedAddWitness ==
    /\ last.op = "add_material"
    /\ DictHas(materials, last.args[1])
    /\ DictGet(materials, last.args[1]) # <<>>

\* every field after the identifier is text float() accepts
Numeric(rows) ==
    \A i \in DOMAIN rows : \A j \in DOMAIN rows[i] :
        j >= 2 => ParseFloat(rows[i][j]) # None

\* the rows, their order, their lengths and their identifiers are those of old
SameShape(old, new) ==
    /\ Len(new) = Len(old)
    /\ \A i \in DOMAIN old :
           /\ Len(new[i]) = Len(old[i])
           /\ new[i][1] = old[i][1]

\* new is old with every field after the identifier replaced by the text of
\* its value times factor
Scaled(old, new, factor) ==
    /\ SameShape(old, new)
    /\ \A i \in DOMAIN old : \A j \in DOMAIN old[i] :
           j >= 2 =>
               /\ ParseFloat(new[i][j]) = ParseFloat(old[i][j]) * factor
               /\ new[i][j] = <<" ">> \o FloatStr(ParseFloat(old[i][j]) * factor)

RowsOf(lines) ==
    LET data == SelectSeq(lines, IsDataLine)
    IN  [k \in DOMAIN data |-> split(DropLast(data[k]))]

NodeStarts(lines) == {i \in DOMAIN lines : node(lines[i])}

\* C12: right after a successful Geometry.read, begin is the first node-start
\* line of the file and the node rows are those of the data lines at
\* begin+1..end.
NodeBlockStart ==
    (cls = "Geometry" /\ last.op = "read" /\ ~last.raised) =>
        /\ state.begin = MinOf(NodeStarts(read_lines)) - 1
        /\ nodes = RowsOf(SubSeq(read_lines, state.begin + 2, state.end + 1))

\* the line without its terminator, if it has one
StripEOL(line) ==
    IF line # <<>> /\ line[Len(line)] = "\n" THEN DropLast(line) ELSE line

\* the file with its last line terminated
Terminated(lines) ==
    IF lines = <<>> THEN lines
    ELSE [lines EXCEPT ![Len(lines)] = StripEOL(@) \o NL]

\* every row the hierarchy holds
AllRows ==
    IF cls = "Geometry" THEN Range(nodes)
    ELSE UNION {UNION {Range(materials[i].val[j].val)
                         : j \in DOMAIN materials[i].val}
                  : i \in DOMAIN materials}

\* the first line of the block, one-based
FirstBlockLine(lines) ==
    IF cls = "Geometry" THEN MinOf(NodeStarts(lines)) ELSE FirstStart(lines)

\* C13: right after a successful read, every row of the hierarchy is the
\* comma-split of a data line read inside the block with only its terminator
\* removed (the unterminated last line of a file included); the node list
\* holds one such row per data line read inside the block, in file order, and
\* the materials are those the same file with its last line terminated gives.
RecordExtraction ==
    (last.op = "read" /\ ~last.raised) =>
        LET lines == read_lines
            inside == SubSeq(lines, FirstBlockLine(lines) + 1, last.scanned)
            data == SelectSeq(inside, IsDataLine)
        IN  /\ \A row \in AllRows :
                   \E k \in DOMAIN data : row = split(StripEOL(data[k]))
            /\ cls = "Geometry" =>
                   nodes = [k \in DOMAIN data |-> split(StripEOL(data[k]))]
            /\ cls = "Material" =>
                   materials = MaterialReadLoop(Terminated(lines), 1, ReadLocals,
                                                is_greedy).materials

\* read is true exactly when begin and end are set, and then they delimit
\* lines of the file that was read
SourceState ==
    /\ state.read <=> (state.begin # None /\ state.end # None)
    /\ state.read <=> (state.begin # None \/ state.end # None)
    /\ state.read =>
           /\ 0 <= state.begin
           /\ state.begin <= state.end
           /\ state.end <= Len(read_lines) - 1

\* C14: in every state read is true if and only if begin and end are both
\* set, and then 0 <= begin <= end <= (number of lines read) - 1; the read
\* that succeeds makes inp_file the file it read, no later call changes
\* inp_file, and add-entry, scale, write and remove never change begin, end
\* or read.
SourceStateInvariant ==
    [][ /\ SourceState /\ SourceState'
        /\ (last'.op = "read" /\ ~last'.raised) =>
               /\ inp_file' = last'.args[1]
               /\ read_lines' = fs[inp_file'].lines
        /\ state.read => inp_file' = inp_file
        /\ last'.op # "read" => state' = state ]_vars

\* a read instance was grown or scaled and then written over the file it
\* had read
SourceStateWitness ==
    /\ state.read /\ state.begin < state.end
    /\ last.op = "write" /\ ~last.raised /\ last.args = <<inp_file>>
    /\ fs[inp_file].lines # read_lines
    /\ nops >= 3

\* C15: a read on a Material not yet read raises or not whatever the
\* hierarchy holds; when it succeeds the hierarchy is the one a new instance
\* gets from the file (what was added by hand is replaced, not merged), and a
\* later write that succeeds reads inp_file and splices the block into it.
ReadAfterPopulation ==
    [][ /\ (cls = "Material" /\ ~state.read /\ last'.op = "read") =>
              LET fresh == Material_read(NewMaterial(is_greedy), fs, last'.args[1])
              IN  /\ last'.raised = fresh.raised
                  /\ ~last'.raised =>
                         /\ materials' = fresh.self.materials
                         /\ state' = fresh.self.state
                         /\ state'.read
        /\ (cls = "Material" /\ state.read /\ last'.op = "write" /\ ~last'.raised) =>
              /\ last'.opened = <<<<inp_file, "r">>, <<last'.args[1], "w">>>>
              /\ fs'[last'.args[1]].lines
                   = readlines(Concat(SpliceInto(fs[inp_file].lines))) ]_vars

\* a Material whose first call added a material by hand read the example
\* file next, and holds the file's material A with its behavior, alone
ReadAfterPopulationWitness ==
    /\ cls = "Material"
    /\ last.op = "read" /\ ~last.raised /\ last.held = 1
    /\ read_lines = Example
    /\ Len(materials) = 1 /\ materials[1].key = <<"A">>
    /\ materials[1].val # <<>>
    /\ nops = 2

====
